---- MODULE Spec2Model ----
(***************************************************************************)
(* A model of the execution engine in src/LLVMInterpreter/Interpreter.cpp: *)
(* global initialisation (evaluateGlobals), the invocation protocol        *)
(* (callFunction), the execution loop (runFunction) with its control       *)
(* transfers, popStack and runMain.                                        *)
(*                                                                         *)
(* The C++ recursion callFunction -> runFunction -> evaluateInstruction -> *)
(* callFunction is kept as an explicit sequence of activations (ctl); the  *)
(* interpreter's own CallStack object is the separate variable stack.      *)
(* assert() and llvm_unreachable() are modelled as they behave in a build  *)
(* with assertions enabled: the process stops (status = "fatal").          *)
(***************************************************************************)
EXTENDS Integers, Sequences, FiniteSets, TLC

(***************************************************************************)
(* Bounds of the model.                                                    *)
(***************************************************************************)
\* longest argument sequence handed to an entry call
MaxArgs == 5
\* deepest nesting of callFunction invocations that is explored
MaxDepth == 4

(***************************************************************************)
(* DynamicValue: the undefined marker, an integer of a bit width (kept as  *)
(* APInt keeps it: the unsigned value below 2^w), or an address.           *)
(***************************************************************************)
RECURSIVE Pow2(_)
Pow2(n) == IF n = 0 THEN 1 ELSE 2 * Pow2(n - 1)

UndefValue == [kind |-> "undef", w |-> 0, v |-> 0]
IntValue(w, v) == [kind |-> "int", w |-> w, v |-> v % Pow2(w)]
\* an integer wider than 16 bits: v is the lowest 16-bit limb of its unsigned
\* value and hi the limbs above it, lowest first
WideValue(w, hi, lo) == [kind |-> "int", w |-> w, v |-> lo, hi |-> hi]
\* the k-th 16-bit limb of an integer's unsigned value (limb 0 is the lowest)
Limb(d, k) ==
    IF k = 0 THEN d.v
    ELSE IF "hi" \in DOMAIN d /\ k <= Len(d.hi) THEN d.hi[k] ELSE 0
\* an address of the global or of the stack address space
GlobalAddress(a) == [kind |-> "globalptr", w |-> 0, v |-> a]
StackAddress(a) == [kind |-> "stackptr", w |-> 0, v |-> a]

isUndefValue(d) == d.kind = "undef"

\* APInt::getBoolValue: any bit set
getBoolValue(d) == \E k \in 0..3 : Limb(d, k) # 0

\* the sign bit of an integer: bit w - 1 of its unsigned value
SignBit(d) == (Limb(d, (d.w - 1) \div 16) \div Pow2((d.w - 1) % 16)) % 2

\* APInt::getSExtValue: the value sign-extended from width w to an int64_t,
\* given as the four 16-bit limbs of the int64_t, lowest first
getSExtValue(d) ==
    [k \in 1..4 |->
        LET low == 16 * (k - 1) IN
        IF d.w >= low + 16 THEN Limb(d, k - 1)
        ELSE IF d.w <= low THEN (IF SignBit(d) = 1 THEN 65535 ELSE 0)
        ELSE Limb(d, k - 1) + (IF SignBit(d) = 1 THEN 65536 - Pow2(d.w - low) ELSE 0)]

\* the conversion of an int64_t to int: its low 32 bits as a two's complement
\* number
TruncateToInt(limbs) ==
    (IF limbs[2] >= 32768 THEN limbs[2] - 65536 ELSE limbs[2]) * 65536 + limbs[1]

(***************************************************************************)
(* Finite maps (binding tables, globalEnv, funPtrMap, memory cells).       *)
(***************************************************************************)
EmptyMap == [x \in {} |-> x]

\* StackFrame::insertBinding, MemorySection::write: insertion overwrites
Overwrite(m, k, val) == [x \in (DOMAIN m) \cup {k} |-> IF x = k THEN val ELSE m[x]]

\* map.insert(std::make_pair(k, val)): an existing key keeps its value
InsertIfAbsent(m, k, val) == IF k \in DOMAIN m THEN m ELSE Overwrite(m, k, val)

(***************************************************************************)
(* Operands of the IR.                                                     *)
(***************************************************************************)
Const(w, v) == [op |-> "const", val |-> IntValue(w, v), name |-> ""]
Ref(n) == [op |-> "ref", val |-> UndefValue, name |-> n]
NoOperand == [op |-> "none", val |-> UndefValue, name |-> ""]

(***************************************************************************)
(* Instructions of the IR.  A block is a sequence of instructions whose    *)
(* last element is its terminator; blocks are named by their index in the  *)
(* function, block 1 being the entry block (f->begin()).                   *)
(***************************************************************************)
Phi(dst, incoming) == [k |-> "phi", dst |-> dst, incoming |-> incoming]
In(bb, val) == [bb |-> bb, val |-> val]
BinOp(dst, fn, a, b) == [k |-> "binop", dst |-> dst, fn |-> fn, a |-> a, b |-> b]
Alloca(dst, size) == [k |-> "alloca", dst |-> dst, size |-> size]
Call(dst, callee, args) == [k |-> "call", dst |-> dst, callee |-> callee, args |-> args]
\* store val, @global: a write of a value at the address of a global variable
Store(global, val) == [k |-> "store", global |-> global, val |-> val]
Br(succ) == [k |-> "br", cond |-> NoOperand, succ |-> succ]
CondBr(cond, s0, s1) == [k |-> "br", cond |-> cond, succ |-> <<s0, s1>>]
Ret(val) == [k |-> "ret", val |-> val]
Case(val, succ) == [val |-> val, succ |-> succ]
Switch(cond, default, cases) ==
    [k |-> "switch", cond |-> cond, default |-> default, cases |-> cases]
Other(opcode) == [k |-> opcode]

TerminatorOpcodes == {"br", "ret", "switch", "unreachable", "indirectbr", "invoke", "resume"}
isTerminator(inst) == inst.k \in TerminatorOpcodes
isPHINode(inst) == inst.k = "phi"

Defined(params, vararg, blocks) ==
    [params |-> params, vararg |-> vararg, decl |-> FALSE, blocks |-> blocks]
Declared(params, vararg) ==
    [params |-> params, vararg |-> vararg, decl |-> TRUE, blocks |-> <<>>]

(***************************************************************************)
(* The module the interpreter is constructed with: its functions.          *)
(***************************************************************************)
\* a loop that exchanges two phi nodes on every iteration
FnSwap ==
    Defined(<<"x", "y", "n">>, FALSE,
      << <<Br(<<2>>)>>,
         <<Phi("a", <<In(1, Ref("x")), In(3, Ref("b"))>>),
           Phi("b", <<In(1, Ref("y")), In(3, Ref("a"))>>),
           Phi("i", <<In(1, Ref("n")), In(3, Ref("i1"))>>),
           CondBr(Ref("i"), 3, 4)>>,
         <<BinOp("i1", "sub", Ref("i"), Const(8, 1)), Br(<<2>>)>>,
         <<BinOp("d", "sub", Ref("a"), Ref("b")), Ret(Ref("a"))>> >>)

\* recursion: n * fact(n - 1), 1 for n = 0
FnFact ==
    Defined(<<"n">>, FALSE,
      << <<CondBr(Ref("n"), 2, 3)>>,
         <<Alloca("tmp", 2),
           BinOp("m", "sub", Ref("n"), Const(8, 1)),
           Call("r", "fact", <<Ref("m")>>),
           BinOp("p", "mul", Ref("n"), Ref("r")),
           Ret(Ref("p"))>>,
         <<Ret(Const(8, 1))>> >>)

\* two fixed parameters and a variable argument list
FnVar2 ==
    Defined(<<"p", "q">>, TRUE,
      << <<Alloca("s", 4), Ret(Ref("q"))>> >>)

\* a switch with a duplicated case constant, and a switch without cases
FnSel ==
    Defined(<<"s">>, FALSE,
      << <<Alloca("t", 2),
           Switch(Ref("s"), 5,
                  <<Case(IntValue(8, 0), 2), Case(IntValue(8, 2), 3),
                    Case(IntValue(8, 0), 4), Case(IntValue(8, 2), 2)>>)>>,
         <<Ret(Const(8, 10))>>,
         <<Ret(Const(8, 20))>>,
         <<Ret(Const(8, 30))>>,
         <<BinOp("e", "sub", Ref("s"), Ref("s")), Switch(Ref("s"), 6, <<>>)>>,
         <<Ret(NoOperand)>> >>)

\* blocks that end in the terminators the engine does not support
FnBad ==
    Defined(<<"k", "j">>, FALSE,
      << <<Alloca("u", 1),
           Switch(Ref("k"), 2, <<Case(IntValue(8, 0), 3), Case(IntValue(8, 2), 4)>>)>>,
         <<BinOp("z", "sub", Ref("k"), Ref("k")), CondBr(Ref("j"), 5, 6)>>,
         <<Alloca("u3", 1), Other("indirectbr")>>,
         <<BinOp("z4", "sub", Ref("k"), Ref("j")), Alloca("u4", 2), Other("invoke")>>,
         <<Alloca("u5", 1), Other("unreachable")>>,
         <<BinOp("z6", "mul", Ref("k"), Ref("j")), Other("resume")>> >>)

\* nested calls of every kind
FnCaller ==
    Defined(<<"c">>, FALSE,
      << <<Alloca("a1", 3),
           Call("r1", "var2", <<Ref("c"), Const(8, 7), Ref("a1"), Ref("c")>>),
           Call("r2", "extv", <<Ref("r1"), Ref("c")>>),
           CondBr(Ref("c"), 2, 3)>>,
         <<Call("r3", "bad", <<Ref("c"), Ref("c")>>), Ret(Ref("r3"))>>,
         <<Call("r4", "fact", <<Const(8, 2)>>), Ret(Ref("r4"))>> >>)

\* branch conditions of several widths
FnWbr ==
    Defined(<<>>, FALSE,
      << <<CondBr(Const(16, 256), 2, 3)>>,
         <<CondBr(Const(8, 128), 4, 3)>>,
         <<Ret(Const(8, 0))>>,
         <<CondBr(Const(16, 0), 3, 5)>>,
         <<Ret(Const(1, 1))>> >>)

\* an entry function: returns whatever the external function returned
FnMain0 ==
    Defined(<<>>, FALSE,
      << <<Alloca("x", 8), Call("v", "extv", <<Ref("x")>>), Ret(Ref("v"))>> >>)

\* stores into the global variables V and B
FnSetg ==
    Defined(<<>>, FALSE,
      << <<Store("V", Const(16, 9)), Store("B", Const(16, 5)), Ret(NoOperand)>> >>)

\* an early return before a loop: block 4 with its phi node is entered only
\* when x is zero
FnEarly ==
    Defined(<<"x">>, FALSE,
      << <<CondBr(Ref("x"), 2, 3)>>,
         <<Ret(Ref("x"))>>,
         <<Br(<<4>>)>>,
         <<Phi("l", <<In(3, Ref("x")), In(4, Ref("l1"))>>),
           BinOp("l1", "sub", Ref("l"), Ref("l")),
           CondBr(Ref("l1"), 4, 5)>>,
         <<Ret(Ref("l"))>> >>)

FnExt1 == Declared(<<"e">>, FALSE)
FnExtv == Declared(<<>>, TRUE)

\* the functions in module order (for (auto const& f: *module))
FunctionOrder ==
    <<"swap", "fact", "var2", "sel", "bad", "caller", "wbr", "main0", "setg", "early",
      "ext1", "extv">>

Functions ==
    [swap |-> FnSwap, fact |-> FnFact, var2 |-> FnVar2, sel |-> FnSel, bad |-> FnBad,
     caller |-> FnCaller, wbr |-> FnWbr, main0 |-> FnMain0, setg |-> FnSetg,
     early |-> FnEarly, ext1 |-> FnExt1, extv |-> FnExtv]

FunctionNames == {FunctionOrder[i] : i \in 1..Len(FunctionOrder)}

isDeclaration(f) == Functions[f].decl
arg_size(f) == Len(Functions[f].params)
isVarArg(f) == Functions[f].vararg
BlockOf(f, bb) == Functions[f].blocks[bb]
\* BasicBlock::getTerminator: the last instruction of the block
getTerminator(f, bb) == BlockOf(f, bb)[Len(BlockOf(f, bb))]

(***************************************************************************)
(* Global variables of the module.  Every llvm::GlobalValue has a pointer  *)
(* type (GlobalValue::getType()); the type of the variable's contents is   *)
(* its value type.                                                         *)
(***************************************************************************)
Type(vector, allocSize) == [vector |-> vector, allocSize |-> allocSize]
PointerType == Type(FALSE, 8)

NoInit == [has |-> FALSE, kind |-> "none", val |-> UndefValue, of |-> ""]
InitInt(w, v) == [has |-> TRUE, kind |-> "int", val |-> IntValue(w, v), of |-> ""]
InitAddrOf(g) == [has |-> TRUE, kind |-> "addr", val |-> UndefValue, of |-> g]

GlobalVar(name, valueType, init) == [name |-> name, valueType |-> valueType, init |-> init]

\* A: a pointer initialised with the address of B;  B: an i16 initialised
\* with 7;  V: a <4 x i32> vector without initializer;  T: a pointer
\* initialised with the address of the function fact
GlobalA == GlobalVar("A", PointerType, InitAddrOf("B"))
GlobalB == GlobalVar("B", Type(FALSE, 2), InitInt(16, 7))
GlobalV == GlobalVar("V", Type(TRUE, 16), NoInit)
GlobalT == GlobalVar("T", PointerType, InitAddrOf("fact"))

\* the declaration orders of the module's globals that are explored
GlobalOrders ==
    { <<GlobalA, GlobalB, GlobalV>>, <<GlobalB, GlobalA, GlobalV>>,
      <<GlobalV, GlobalA, GlobalB>>, <<GlobalB, GlobalV, GlobalA>>,
      <<GlobalA, GlobalB, GlobalT>> }

\* gv->getType(): the type of the global value itself, a pointer
getType(gv) == PointerType
isVectorTy(t) == t.vector
getTypeAllocSize(t) == t.allocSize

(***************************************************************************)
(* MemorySection: a bump allocator with cells.                             *)
(***************************************************************************)
EmptyMem == [top |-> 0, cells |-> EmptyMap]
\* allocate(size): the address is the old high-water mark
MemAllocate(mem, size) == [mem |-> [mem EXCEPT !.top = @ + size], addr |-> mem.top]
MemDeallocate(mem, size) == [mem EXCEPT !.top = @ - size]
MemWrite(mem, addr, val) == [mem EXCEPT !.cells = Overwrite(@, addr, val)]
MemClear(mem) == EmptyMem

(***************************************************************************)
(* StackFrame and CallStack.                                               *)
(***************************************************************************)
\* StackFrame(f): no bindings, no varargs, nothing allocated
NewFrame(f) == [func |-> f, bindings |-> EmptyMap, varargs |-> <<>>, allocSize |-> 0]
insertBinding(frame, name, val) == [frame EXCEPT !.bindings = Overwrite(@, name, val)]
insertVararg(frame, val) == [frame EXCEPT !.varargs = Append(@, val)]
increaseAllocationSize(frame, size) == [frame EXCEPT !.allocSize = @ + size]
getAllocationSize(frame) == frame.allocSize

\* CallStack::createFrame: the new frame is the top one
createFrame(stk, f) == Append(stk, NewFrame(f))
getCurrentFrame(stk) == stk[Len(stk)]
popFrame(stk) == SubSeq(stk, 1, Len(stk) - 1)

(***************************************************************************)
(* The boundary calls of the engine: operand and instruction evaluation.   *)
(***************************************************************************)
\* evaluateOperand(frame, v): a constant is its value, any other IR value
\* is looked up in the bindings of the frame that was handed in
evaluateOperand(frame, operand) ==
    IF operand.op = "const" THEN operand.val ELSE frame.bindings[operand.name]

RECURSIVE evaluateOperands(_, _, _)
evaluateOperands(frame, operands, i) ==
    IF i > Len(operands) THEN <<>>
    ELSE <<evaluateOperand(frame, operands[i])>> \o evaluateOperands(frame, operands, i + 1)

\* the integer arithmetic of a binary operator, at the width of its left operand
evaluateBinOp(fn, a, b) ==
    IF fn = "sub" THEN IntValue(a.w, a.v - b.v) ELSE IntValue(a.w, a.v * b.v)

(***************************************************************************)
(* Interpreter::allocateStackMem                                           *)
(***************************************************************************)
\* variant: the allocation is made but not recorded in the frame
allocateStackMemUnrecorded(mem, frame, size) ==
    [frame |-> frame,
     mem |-> MemAllocate(mem, size).mem,
     addr |-> MemAllocate(mem, size).addr]

allocateStackMem(mem, frame, size) ==
    [frame |-> increaseAllocationSize(frame, size),
     mem |-> MemAllocate(mem, size).mem,
     addr |-> MemAllocate(mem, size).addr]

(***************************************************************************)
(* Interpreter::allocateGlobalMem                                          *)
(***************************************************************************)
\* the vector check of allocateGlobalMem, made on gv->getType()
allocateGlobalMemUnsupported(gv) == isVectorTy(getType(gv))
\* variant: nothing is claimed for a global value
allocateGlobalMemNoSize(mem, gv) == MemAllocate(mem, 0)

allocateGlobalMem(mem, gv) == MemAllocate(mem, getTypeAllocSize(getType(gv)))

(***************************************************************************)
(* Interpreter::callFunction: the argument count check and the binding of  *)
(* the arguments into the new frame.                                       *)
(***************************************************************************)
ArgCountOK(f, argValues) ==
    \/ Len(argValues) = arg_size(f)
    \/ Len(argValues) > arg_size(f) /\ isVarArg(f)

\* for (itr = arg_begin(); itr != arg_end(); ++itr, ++i) insertBinding(itr, argValues[i])
RECURSIVE BindParams(_, _, _, _)
BindParams(frame, params, argValues, i) ==
    IF i = Len(params) THEN frame
    ELSE BindParams(insertBinding(frame, params[i + 1], argValues[i + 1]),
                    params, argValues, i + 1)

\* variant: the overflow loop starts at argValues.begin()
RECURSIVE AppendVarargs(_, _, _)
AppendVarargs(frame, argValues, i) ==
    IF i >= Len(argValues) THEN frame
    ELSE AppendVarargs(insertVararg(frame, argValues[i + 1]), argValues, i + 1)

BindVarargsFromBegin(frame, argValues, i) == AppendVarargs(frame, argValues, 0)

\* for (itr = argValues.begin() + i; itr != argValues.end(); ++itr) insertVararg(*itr)
RECURSIVE BindVarargs(_, _, _)
BindVarargs(frame, argValues, i) ==
    IF i >= Len(argValues) THEN frame
    ELSE BindVarargs(insertVararg(frame, argValues[i + 1]), argValues, i + 1)

\* variant: only the arguments of the fixed parameters are handed over
ExternalArgsFixedOnly(f, argValues) ==
    SubSeq(argValues, 1, IF arg_size(f) < Len(argValues) THEN arg_size(f) ELSE Len(argValues))

\* line 63: the arguments callExternalFunction is handed
ExternalArgs(f, argValues) == argValues

CalleeFrame(f, argValues) ==
    BindVarargs(BindParams(NewFrame(f), Functions[f].params, argValues, 0),
                argValues, arg_size(f))

(***************************************************************************)
(* Interpreter::popStack                                                   *)
(***************************************************************************)
\* variant: the frame is popped, its allocation is not released
popStackKeepsMemory(mem, stk) == [mem |-> mem, stk |-> popFrame(stk)]

\* variant: the allocation is released, the frame stays on the call stack
popStackKeepsFrame(mem, stk) ==
    [mem |-> MemDeallocate(mem, getAllocationSize(getCurrentFrame(stk))), stk |-> stk]

popStack(mem, stk) ==
    [mem |-> MemDeallocate(mem, getAllocationSize(getCurrentFrame(stk))),
     stk |-> popFrame(stk)]

(***************************************************************************)
(* Interpreter::runFunction: the pieces of the execution loop.             *)
(***************************************************************************)
\* variant: the loop starts at the head of the block
SkipPhisNone(block, i) == i

\* while (isa<PHINode>(instItr)) ++instItr;   (positions are 1-based)
RECURSIVE SkipPhis(_, _)
SkipPhis(block, i) == IF isPHINode(block[i]) THEN SkipPhis(block, i + 1) ELSE i

\* PHINode::getBasicBlockIndex: the first incoming entry for the block, 0 for none
RECURSIVE getBasicBlockIndex(_, _, _)
getBasicBlockIndex(phiNode, bb, i) ==
    IF i > Len(phiNode.incoming) THEN 0
    ELSE IF phiNode.incoming[i].bb = bb THEN i
    ELSE getBasicBlockIndex(phiNode, bb, i + 1)

\* the assertion of switchToNewBasicBlock: some head phi has no entry for prevBB
RECURSIVE PhiEntryMissing(_, _, _)
PhiEntryMissing(block, prevBB, i) ==
    IF i > Len(block) \/ ~isPHINode(block[i]) THEN FALSE
    ELSE \/ getBasicBlockIndex(block[i], prevBB, 1) = 0
         \/ PhiEntryMissing(block, prevBB, i + 1)

\* first pass: every incoming value is evaluated against the frame as it is
RECURSIVE PhiValueCache(_, _, _, _)
PhiValueCache(frame, block, prevBB, i) ==
    IF i > Len(block) \/ ~isPHINode(block[i]) THEN <<>>
    ELSE LET idx == getBasicBlockIndex(block[i], prevBB, 1)
             incomingVal == evaluateOperand(frame, block[i].incoming[idx].val)
         IN  <<[phi |-> block[i].dst, val |-> incomingVal]>>
             \o PhiValueCache(frame, block, prevBB, i + 1)

\* second pass: the cached pairs are committed in order
RECURSIVE CommitPhis(_, _, _)
CommitPhis(frame, cache, i) ==
    IF i > Len(cache) THEN frame
    ELSE CommitPhis(insertBinding(frame, cache[i].phi, cache[i].val), cache, i + 1)

\* variant: every phi is bound as soon as its incoming value is evaluated
RECURSIVE BindPhisOnTheFly(_, _, _, _)
BindPhisOnTheFly(frame, block, prevBB, i) ==
    IF i > Len(block) \/ ~isPHINode(block[i]) THEN frame
    ELSE LET idx == getBasicBlockIndex(block[i], prevBB, 1)
             incomingVal == evaluateOperand(frame, block[i].incoming[idx].val)
         IN  BindPhisOnTheFly(insertBinding(frame, block[i].dst, incomingVal),
                              block, prevBB, i + 1)

switchToNewBasicBlockOnTheFly(frame, prevBB, destBB) ==
    BindPhisOnTheFly(frame, BlockOf(frame.func, destBB), prevBB, 1)

\* the frame after the lambda switchToNewBasicBlock(destBB), entered from prevBB
switchToNewBasicBlock(frame, prevBB, destBB) ==
    CommitPhis(frame, PhiValueCache(frame, BlockOf(frame.func, destBB), prevBB, 1), 1)

\* variant: the successors of a conditional branch are exchanged
BrDestInverted(brInst, frame) ==
    IF brInst.cond.op # "none" /\ getBoolValue(evaluateOperand(frame, brInst.cond))
    THEN brInst.succ[2]
    ELSE brInst.succ[1]

\* case Instruction::Br
BrDest(brInst, frame) ==
    IF brInst.cond.op # "none" /\ ~getBoolValue(evaluateOperand(frame, brInst.cond))
    THEN brInst.succ[2]
    ELSE brInst.succ[1]

\* variant: the scan does not stop at the first match, the last one wins
RECURSIVE SwitchScanNoBreak(_, _, _)
SwitchScanNoBreak(switchInst, condInt, i) ==
    IF i > Len(switchInst.cases) THEN switchInst.default
    ELSE LET rest == SwitchScanNoBreak(switchInst, condInt, i + 1) IN
         IF condInt = switchInst.cases[i].val
            /\ ~\E j \in (i + 1)..Len(switchInst.cases) : condInt = switchInst.cases[j].val
         THEN switchInst.cases[i].succ
         ELSE rest

\* case Instruction::Switch: the scan of the case list
RECURSIVE SwitchScan(_, _, _)
SwitchScan(switchInst, condInt, i) ==
    IF i > Len(switchInst.cases) THEN switchInst.default
    ELSE IF condInt = switchInst.cases[i].val THEN switchInst.cases[i].succ
    ELSE SwitchScan(switchInst, condInt, i + 1)

SwitchDest(switchInst, frame) ==
    SwitchScan(switchInst, evaluateOperand(frame, switchInst.cond), 1)

\* case Instruction::Ret: the value of the return operand
RetValue(retInst, frame) ==
    IF retInst.val.op # "none" THEN evaluateOperand(frame, retInst.val) ELSE UndefValue

(***************************************************************************)
(* Interpreter::runMain: the exit code for the entry function's result.    *)
(***************************************************************************)
\* the entry function's result read without its sign (getZExtValue)
runMainResultZeroExtends(retVal) ==
    IF isUndefValue(retVal) THEN 0
    ELSE TruncateToInt([k \in 1..4 |-> Limb(retVal, k - 1)])

runMainResult(retVal) ==
    IF isUndefValue(retVal) THEN 0 ELSE TruncateToInt(getSExtValue(retVal))

(***************************************************************************)
(* Inputs.                                                                 *)
(***************************************************************************)
\* the values an entry call passes as arguments
ArgVals == {IntValue(1, 1), IntValue(8, 0), IntValue(8, 2)}
ArgSeqs == UNION {[1..n -> ArgVals] : n \in 0..MaxArgs}
\* the values an external function may return
ExtVals == {UndefValue, IntValue(1, 1), IntValue(8, 255), IntValue(16, 32767),
            IntValue(16, 32768), WideValue(32, <<32768>>, 0),
            WideValue(64, <<0, 1, 0>>, 0)}
\* the process arguments handed to runMain
MainArgSeqs == {<<>>, <<"prog", "7">>}

(***************************************************************************)
(* State.                                                                  *)
(***************************************************************************)
VARIABLES
    globals,    \* module->globals(), in declaration order
    globalMem,  \* Interpreter::globalMem
    globalEnv,  \* Interpreter::globalEnv: global entity -> address
    funPtrMap,  \* Interpreter::funPtrMap: address -> function
    gpc,        \* the position of a running evaluateGlobals
    priorMem,   \* globalMem as the running or last evaluateGlobals found it (history)
    status,     \* "idle", "globals", "running", "returned" or "fatal"
    entry,      \* how the running invocation chain was started: "call" or "main"
    mainArgs,   \* the mainArgs of the last runMain
    ctl,        \* the active callFunction invocations, outermost first
    stack,      \* Interpreter::stack, bottom frame first
    stackMem,   \* Interpreter::stackMem
    result,     \* the value the outermost callFunction returned
    exitCode,   \* the value runMain returned
    extCall,    \* what callExternalFunction was last handed, and what it returned
    last        \* the step taken last (history)

vars == <<globals, globalMem, globalEnv, funPtrMap, gpc, priorMem, status, entry, mainArgs,
          ctl, stack, stackMem, result, exitCode, extCall, last>>
globalVars == <<globalMem, globalEnv, funPtrMap, gpc>>
callVars == <<ctl, stack, stackMem, result, exitCode, extCall, entry, mainArgs>>

NoResult == [has |-> FALSE, val |-> UndefValue]
NoExit == [has |-> FALSE, code |-> 0]
NoExtCall == [has |-> FALSE, f |-> "", args |-> <<>>, returned |-> FALSE, val |-> UndefValue]
NoPosition == [phase |-> "none", i |-> 0]

Init ==
    /\ globals \in GlobalOrders
    /\ globalMem = EmptyMem
    /\ globalEnv = EmptyMap
    /\ funPtrMap = EmptyMap
    /\ gpc = NoPosition
    /\ priorMem = EmptyMem
    /\ status = "idle"
    /\ entry = "none"
    /\ mainArgs = <<>>
    /\ ctl = <<>>
    /\ stack = <<>>
    /\ stackMem = EmptyMem
    /\ result = NoResult
    /\ exitCode = NoExit
    /\ extCall = NoExtCall
    /\ last = [ev |-> "init"]

(***************************************************************************)
(* Interpreter::evaluateGlobals, one loop iteration per step.              *)
(***************************************************************************)
\* the constant evaluator on an initializer: an integer constant, or the
\* address the entity-to-address map holds for a global entity
evaluateConstant(init, env) ==
    IF init.kind = "int" THEN init.val ELSE GlobalAddress(env[init.of])
evaluateConstantFails(init, env) == init.kind = "addr" /\ init.of \notin DOMAIN env

\* variant: one loop that allocates a global and evaluates its initializer at once
evaluateGlobalsNextSingleLoop(pos) ==
    IF pos.phase = "alloc" THEN [phase |-> "init", i |-> pos.i]
    ELSE IF pos.phase = "init"
    THEN IF pos.i < Len(globals) THEN [phase |-> "alloc", i |-> pos.i + 1]
         ELSE [phase |-> "funcs", i |-> 1]
    ELSE IF pos.i < Len(FunctionOrder) THEN [phase |-> "funcs", i |-> pos.i + 1]
         ELSE NoPosition

\* the three loops of evaluateGlobals in sequence
evaluateGlobalsNext(pos) ==
    IF pos.phase = "alloc"
    THEN IF pos.i < Len(globals) THEN [phase |-> "alloc", i |-> pos.i + 1]
         ELSE [phase |-> "init", i |-> 1]
    ELSE IF pos.phase = "init"
    THEN IF pos.i < Len(globals) THEN [phase |-> "init", i |-> pos.i + 1]
         ELSE [phase |-> "funcs", i |-> 1]
    ELSE IF pos.i < Len(FunctionOrder) THEN [phase |-> "funcs", i |-> pos.i + 1]
         ELSE NoPosition

\* variant: the global address space is not cleared
EvaluateGlobalsBeginKeepsMemory ==
    /\ status = "idle"
    /\ globalMem' = globalMem
    /\ gpc' = [phase |-> "alloc", i |-> 1]
    /\ status' = "globals"
    /\ priorMem' = globalMem
    /\ last' = [ev |-> "globals_begin"]
    /\ UNCHANGED <<globals, globalEnv, funPtrMap>>
    /\ UNCHANGED callVars

\* globalMem.clear(), then the first loop begins
EvaluateGlobalsBegin ==
    /\ status = "idle"
    /\ globalMem' = MemClear(globalMem)
    /\ gpc' = [phase |-> "alloc", i |-> 1]
    /\ status' = "globals"
    /\ priorMem' = globalMem
    /\ last' = [ev |-> "globals_begin"]
    /\ UNCHANGED <<globals, globalEnv, funPtrMap>>
    /\ UNCHANGED callVars

\* lines 36-40: allocate the global, record its address
GlobalsAllocate ==
    /\ status = "globals" /\ gpc.phase = "alloc"
    /\ LET gv == globals[gpc.i] IN
       IF allocateGlobalMemUnsupported(gv)
       THEN /\ status' = "fatal"
            /\ UNCHANGED globalVars
       ELSE /\ globalMem' = allocateGlobalMem(globalMem, gv).mem
            /\ globalEnv' = InsertIfAbsent(globalEnv, gv.name,
                                           allocateGlobalMem(globalMem, gv).addr)
            /\ gpc' = evaluateGlobalsNext(gpc)
            /\ UNCHANGED <<funPtrMap, status>>
    /\ last' = [ev |-> "globals_alloc", i |-> gpc.i, size |-> globalMem'.top - globalMem.top]
    /\ UNCHANGED priorMem
    /\ UNCHANGED globals
    /\ UNCHANGED callVars

\* lines 42-47: write the initializer's value at the global's address
GlobalsInitialize ==
    /\ status = "globals" /\ gpc.phase = "init"
    /\ LET gv == globals[gpc.i]
           globalAddr == globalEnv[gv.name]
       IN  IF gv.init.has /\ evaluateConstantFails(gv.init, globalEnv)
           THEN /\ status' = "fatal"
                /\ UNCHANGED globalVars
           ELSE /\ globalMem' = IF gv.init.has
                                THEN MemWrite(globalMem, globalAddr,
                                              evaluateConstant(gv.init, globalEnv))
                                ELSE globalMem
                /\ gpc' = evaluateGlobalsNext(gpc)
                /\ UNCHANGED <<globalEnv, funPtrMap, status>>
    /\ last' = [ev |-> "globals_init", i |-> gpc.i]
    /\ UNCHANGED priorMem
    /\ UNCHANGED globals
    /\ UNCHANGED callVars

\* lines 50-55: give each function an address, recorded in both directions
GlobalsFunction ==
    /\ status = "globals" /\ gpc.phase = "funcs"
    /\ LET f == FunctionOrder[gpc.i] IN
       IF allocateGlobalMemUnsupported(f)
       THEN /\ status' = "fatal"
            /\ UNCHANGED globalVars
       ELSE LET funAddr == allocateGlobalMem(globalMem, f).addr IN
            /\ globalMem' = allocateGlobalMem(globalMem, f).mem
            /\ globalEnv' = InsertIfAbsent(globalEnv, f, funAddr)
            /\ funPtrMap' = InsertIfAbsent(funPtrMap, funAddr, f)
            /\ gpc' = evaluateGlobalsNext(gpc)
            /\ status' = IF evaluateGlobalsNext(gpc) = NoPosition THEN "idle" ELSE status
    /\ last' = IF status' = "idle" THEN [ev |-> "globals_done"]
               ELSE [ev |-> "globals_function"]
    /\ UNCHANGED priorMem
    /\ UNCHANGED globals
    /\ UNCHANGED callVars

(***************************************************************************)
(* Invocations.  An activation is one callFunction invocation that has not *)
(* returned: pc is "call" on entry, "ext" inside callExternalFunction,     *)
(* "loop" inside runFunction at instruction idx of block bb, "wait" while  *)
(* evaluateInstruction runs a nested callFunction, and "ret" between the   *)
(* evaluation of a return operand and popStack.  frame is the position in  *)
(* stack of the frame runFunction was handed; visited lists the            *)
(* instructions evaluated in this visit of the block; depth0, claimed0 and *)
(* stack0 are the stack depth, the claimed bytes and the call stack when   *)
(* the invocation began; entered lists the blocks control was transferred  *)
(* to.                                                                     *)
(***************************************************************************)
Activation(f, argValues) ==
    [f |-> f, args |-> argValues, pc |-> "call", frame |-> 0, bb |-> 0, idx |-> 0,
     visited |-> <<>>, retVal |-> UndefValue,
     depth0 |-> Len(stack), claimed0 |-> stackMem.top,
     stack0 |-> stack, entered |-> <<>>]

Top == ctl[Len(ctl)]
Running == status = "running" /\ Len(ctl) > 0
\* the frame reference the top activation's runFunction holds
Frame == stack[Top.frame]
CurInst == BlockOf(Top.f, Top.bb)[Top.idx]
AtInstruction == Running /\ Top.pc = "loop" /\ ~isTerminator(CurInst)
AtTerminator == Running /\ Top.pc = "loop" /\ isTerminator(CurInst)

SetTop(act) == [ctl EXCEPT ![Len(ctl)] = act]
SetFrame(stk, i, frame) == [stk EXCEPT ![i] = frame]

\* a callFunction(f, argValues) from outside the engine
InvokeEntry ==
    /\ status = "idle"
    /\ \E f \in FunctionNames, argValues \in ArgSeqs :
          ctl' = <<Activation(f, argValues)>>
    /\ status' = "running"
    /\ entry' = "call"
    /\ mainArgs' = <<>>
    /\ result' = NoResult
    /\ exitCode' = NoExit
    /\ extCall' = NoExtCall
    /\ last' = [ev |-> "invoke"]
    /\ UNCHANGED <<stack, stackMem, globals>>
    /\ UNCHANGED globalVars
    /\ priorMem' = EmptyMem

\* variant: every process argument is handed on as an argument value
RunMainPassesArgs ==
    /\ status = "idle"
    /\ \E mainFn \in FunctionNames, margs \in MainArgSeqs :
          /\ ctl' = <<Activation(mainFn, [i \in 1..Len(margs) |-> IntValue(8, i)])>>
          /\ mainArgs' = margs
    /\ status' = "running"
    /\ entry' = "main"
    /\ result' = NoResult
    /\ exitCode' = NoExit
    /\ extCall' = NoExtCall
    /\ last' = [ev |-> "runMain"]
    /\ UNCHANGED <<stack, stackMem, globals>>
    /\ UNCHANGED globalVars
    /\ priorMem' = EmptyMem

\* runMain(mainFn, mainArgs): callFunction(mainFn, {})
RunMain ==
    /\ status = "idle"
    /\ \E mainFn \in FunctionNames, margs \in MainArgSeqs :
          /\ ctl' = <<Activation(mainFn, <<>>)>>
          /\ mainArgs' = margs
    /\ status' = "running"
    /\ entry' = "main"
    /\ result' = NoResult
    /\ exitCode' = NoExit
    /\ extCall' = NoExtCall
    /\ last' = [ev |-> "runMain"]
    /\ UNCHANGED <<stack, stackMem, globals>>
    /\ UNCHANGED globalVars
    /\ priorMem' = EmptyMem

\* the return of the top activation's callFunction with value retVal, the
\* call stack being stk: to the call instruction that made the call (which
\* binds the value and moves on), or out of the engine
ReturnFromCall(retVal, stk) ==
    IF Len(ctl) = 1
    THEN /\ ctl' = <<>>
         /\ stack' = stk
         /\ status' = "returned"
         /\ result' = [has |-> TRUE, val |-> retVal]
         /\ exitCode' = IF entry = "main"
                        THEN [has |-> TRUE, code |-> runMainResult(retVal)]
                        ELSE exitCode
    ELSE LET n == Len(ctl) - 1
             caller == ctl[n]
             callInst == BlockOf(caller.f, caller.bb)[caller.idx]
         IN  /\ ctl' = [SubSeq(ctl, 1, n) EXCEPT ![n] =
                           [caller EXCEPT !.pc = "loop", !.idx = @ + 1,
                                          !.visited = Append(@, caller.idx)]]
             /\ stack' = SetFrame(stk, caller.frame,
                                  insertBinding(stk[caller.frame], callInst.dst, retVal))
             /\ UNCHANGED <<status, result, exitCode>>

\* the host has taken the value of the entry call: the engine is idle again
HostContinues ==
    /\ status = "returned"
    /\ status' = "idle"
    /\ entry' = "none"
    /\ mainArgs' = <<>>
    /\ result' = NoResult
    /\ exitCode' = NoExit
    /\ extCall' = NoExtCall
    /\ last' = [ev |-> "idle"]
    /\ UNCHANGED <<ctl, stack, stackMem, globals>>
    /\ UNCHANGED <<globalVars, priorMem>>

\* variant: a frame is created for a declaration as well
CallExternalWithFrame ==
    /\ Running /\ Top.pc = "call"
    /\ isDeclaration(Top.f)
    /\ ctl' = SetTop([Top EXCEPT !.pc = "ext"])
    /\ extCall' = [has |-> TRUE, f |-> Top.f, args |-> ExternalArgs(Top.f, Top.args),
                   returned |-> FALSE, val |-> UndefValue]
    /\ stack' = createFrame(stack, Top.f)
    /\ last' = [ev |-> "external"]
    /\ UNCHANGED <<stackMem, status, result, exitCode, entry, mainArgs, globals>>
    /\ UNCHANGED <<globalVars, priorMem>>

\* line 62-63: a declaration is handed to callExternalFunction
CallExternal ==
    /\ Running /\ Top.pc = "call"
    /\ isDeclaration(Top.f)
    /\ ctl' = SetTop([Top EXCEPT !.pc = "ext"])
    /\ extCall' = [has |-> TRUE, f |-> Top.f, args |-> ExternalArgs(Top.f, Top.args),
                   returned |-> FALSE, val |-> UndefValue]
    /\ last' = [ev |-> "external"]
    /\ UNCHANGED <<stack, stackMem, status, result, exitCode, entry, mainArgs, globals>>
    /\ UNCHANGED <<globalVars, priorMem>>

\* callExternalFunction returns some value, which callFunction returns
ExternalReturn ==
    /\ Running /\ Top.pc = "ext"
    /\ \E val \in ExtVals :
          /\ extCall' = [extCall EXCEPT !.returned = TRUE, !.val = val]
          /\ ReturnFromCall(val, stack)
    /\ last' = [ev |-> "external_return", act |-> Top]
    /\ UNCHANGED <<stackMem, entry, mainArgs, globals>>
    /\ UNCHANGED <<globalVars, priorMem>>

\* lines 66-85: the frame is created, the argument count checked, the
\* arguments bound, and runFunction begins at the entry block
CallFunctionBody ==
    /\ Running /\ Top.pc = "call"
    /\ ~isDeclaration(Top.f)
    /\ ArgCountOK(Top.f, Top.args)
    /\ stack' = SetFrame(createFrame(stack, Top.f), Len(stack) + 1,
                         CalleeFrame(Top.f, Top.args))
    /\ ctl' = SetTop([Top EXCEPT !.pc = "loop", !.frame = Len(stack) + 1, !.bb = 1,
                                 !.idx = SkipPhis(BlockOf(Top.f, 1), 1)])
    /\ last' = [ev |-> "enter"]
    /\ UNCHANGED <<stackMem, status, result, exitCode, extCall, entry, mainArgs, globals>>
    /\ UNCHANGED <<globalVars, priorMem>>

\* lines 66-72: the frame is created and the assertion on the count fails
CallFunctionBadArgs ==
    /\ Running /\ Top.pc = "call"
    /\ ~isDeclaration(Top.f)
    /\ ~ArgCountOK(Top.f, Top.args)
    /\ stack' = createFrame(stack, Top.f)
    /\ ctl' = SetTop([Top EXCEPT !.frame = Len(stack) + 1])
    /\ status' = "fatal"
    /\ last' = [ev |-> "bad_args"]
    /\ UNCHANGED <<stackMem, result, exitCode, extCall, entry, mainArgs, globals>>
    /\ UNCHANGED <<globalVars, priorMem>>

(***************************************************************************)
(* Interpreter::runFunction: the execution loop.                           *)
(***************************************************************************)
Advance(act) == [act EXCEPT !.idx = @ + 1, !.visited = Append(@, act.idx)]

\* evaluateInstruction on an arithmetic instruction: binds its result
EvaluateBinOp ==
    /\ AtInstruction /\ CurInst.k = "binop"
    /\ stack' = SetFrame(stack, Top.frame,
                    insertBinding(Frame, CurInst.dst,
                        evaluateBinOp(CurInst.fn, evaluateOperand(Frame, CurInst.a),
                                      evaluateOperand(Frame, CurInst.b))))
    /\ ctl' = SetTop(Advance(Top))
    /\ last' = [ev |-> "binop"]
    /\ UNCHANGED <<stackMem, status, result, exitCode, extCall, entry, mainArgs, globals>>
    /\ UNCHANGED <<globalVars, priorMem>>

\* variant: the allocation is recorded in the bottom frame of the call stack
EvaluateAllocaChargesBottom ==
    /\ AtInstruction /\ CurInst.k = "alloca"
    /\ LET a == allocateStackMem(stackMem, stack[1], CurInst.size)
           charged == SetFrame(stack, 1, a.frame)
       IN /\ stackMem' = a.mem
          /\ stack' = SetFrame(charged, Top.frame,
                          insertBinding(charged[Top.frame], CurInst.dst,
                                        StackAddress(a.addr)))
    /\ ctl' = SetTop(Advance(Top))
    /\ last' = [ev |-> "alloca"]
    /\ UNCHANGED <<status, result, exitCode, extCall, entry, mainArgs, globals>>
    /\ UNCHANGED <<globalVars, priorMem>>

\* evaluateInstruction on an alloca: allocateStackMem(frame, size)
EvaluateAlloca ==
    /\ AtInstruction /\ CurInst.k = "alloca"
    /\ LET a == allocateStackMem(stackMem, Frame, CurInst.size) IN
          /\ stackMem' = a.mem
          /\ stack' = SetFrame(stack, Top.frame,
                          insertBinding(a.frame, CurInst.dst, StackAddress(a.addr)))
    /\ ctl' = SetTop(Advance(Top))
    /\ last' = [ev |-> "alloca"]
    /\ UNCHANGED <<status, result, exitCode, extCall, entry, mainArgs, globals>>
    /\ UNCHANGED <<globalVars, priorMem>>

\* evaluateInstruction on a store to a global variable: the address is the
\* one globalEnv holds for it (none before evaluateGlobals: the lookup fails)
EvaluateStore ==
    /\ AtInstruction /\ CurInst.k = "store"
    /\ IF CurInst.global \notin DOMAIN globalEnv
       THEN /\ status' = "fatal"
            /\ UNCHANGED <<ctl, globalMem>>
       ELSE /\ globalMem' = MemWrite(globalMem, globalEnv[CurInst.global],
                                     evaluateOperand(Frame, CurInst.val))
            /\ ctl' = SetTop(Advance(Top))
            /\ UNCHANGED status
    /\ last' = [ev |-> "store"]
    /\ UNCHANGED <<stack, stackMem, result, exitCode, extCall, entry, mainArgs, globals>>
    /\ UNCHANGED <<globalEnv, funPtrMap, gpc, priorMem>>

\* evaluateInstruction on a call: a nested callFunction with the evaluated arguments
EvaluateCall ==
    /\ AtInstruction /\ CurInst.k = "call"
    /\ Len(ctl) < MaxDepth
    /\ ctl' = Append(SetTop([Top EXCEPT !.pc = "wait"]),
                     Activation(CurInst.callee, evaluateOperands(Frame, CurInst.args, 1)))
    /\ last' = [ev |-> "call"]
    /\ UNCHANGED <<stack, stackMem, status, result, exitCode, extCall, entry, mainArgs,
                   globals>>
    /\ UNCHANGED <<globalVars, priorMem>>

\* the control transfer to destBB: fatal when a head phi of destBB has no
\* entry for the block just left, else the phis are bound and the loop
\* continues behind them
Transfer(destBB, ev) ==
    /\ IF PhiEntryMissing(BlockOf(Top.f, destBB), Top.bb, 1)
       THEN /\ status' = "fatal"
            /\ UNCHANGED <<ctl, stack>>
       ELSE /\ stack' = SetFrame(stack, Top.frame,
                                 switchToNewBasicBlock(Frame, Top.bb, destBB))
            /\ ctl' = SetTop([Top EXCEPT !.bb = destBB,
                                         !.idx = SkipPhis(BlockOf(Top.f, destBB), 1),
                                         !.visited = <<>>,
                                         !.entered = Append(@, destBB)])
            /\ UNCHANGED status
    /\ last' = [ev |-> ev, from |-> Top.bb, to |-> destBB, pre |-> Frame,
                visited |-> Top.visited]
    /\ UNCHANGED <<stackMem, result, exitCode, extCall, entry, mainArgs, globals>>
    /\ UNCHANGED <<globalVars, priorMem>>

\* case Instruction::Br
BranchTerminator ==
    /\ AtTerminator /\ CurInst.k = "br"
    /\ Transfer(BrDest(CurInst, Frame), "br")

\* case Instruction::Switch
SwitchTerminator ==
    /\ AtTerminator /\ CurInst.k = "switch"
    /\ Transfer(SwitchDest(CurInst, Frame), "switch")

\* case Instruction::Ret, lines 165-169: the return value is computed
ReturnEvaluate ==
    /\ AtTerminator /\ CurInst.k = "ret"
    /\ ctl' = SetTop([Top EXCEPT !.pc = "ret", !.retVal = RetValue(CurInst, Frame)])
    /\ last' = [ev |-> "ret_eval"]
    /\ UNCHANGED <<stack, stackMem, status, result, exitCode, extCall, entry, mainArgs,
                   globals>>
    /\ UNCHANGED <<globalVars, priorMem>>

\* case Instruction::Ret, lines 172-174: popStack(), then the value is
\* returned from runFunction and from callFunction
ReturnPop ==
    /\ Running /\ Top.pc = "ret"
    /\ LET p == popStack(stackMem, stack) IN
          /\ stackMem' = p.mem
          /\ ReturnFromCall(Top.retVal, p.stk)
    /\ last' = [ev |-> "return", act |-> Top, frame |-> Frame, depth |-> Len(stack),
                claimed |-> stackMem.top]
    /\ UNCHANGED <<extCall, entry, mainArgs, globals>>
    /\ UNCHANGED <<globalVars, priorMem>>

\* variant: an unsupported terminator is taken for a return without value
UnsupportedTerminatorReturns ==
    /\ AtTerminator /\ CurInst.k \notin {"br", "ret", "switch"}
    /\ ctl' = SetTop([Top EXCEPT !.pc = "ret", !.retVal = UndefValue])
    /\ last' = [ev |-> "ret_eval"]
    /\ UNCHANGED <<stack, stackMem, status, result, exitCode, extCall, entry, mainArgs,
                   globals>>
    /\ UNCHANGED <<globalVars, priorMem>>

\* Unreachable, IndirectBr, Invoke, Resume and default: llvm_unreachable
UnsupportedTerminator ==
    /\ AtTerminator /\ CurInst.k \notin {"br", "ret", "switch"}
    /\ status' = "fatal"
    /\ last' = [ev |-> "unsupported", opcode |-> CurInst.k, visited |-> Top.visited]
    /\ UNCHANGED <<ctl, stack, stackMem, result, exitCode, extCall, entry, mainArgs,
                   globals>>
    /\ UNCHANGED <<globalVars, priorMem>>

Next ==
    \/ EvaluateGlobalsBegin
    \/ GlobalsAllocate
    \/ GlobalsInitialize
    \/ GlobalsFunction
    \/ InvokeEntry
    \/ RunMain
    \/ HostContinues
    \/ CallExternal
    \/ ExternalReturn
    \/ CallFunctionBody
    \/ CallFunctionBadArgs
    \/ EvaluateBinOp
    \/ EvaluateAlloca
    \/ EvaluateStore
    \/ EvaluateCall
    \/ BranchTerminator
    \/ SwitchTerminator
    \/ ReturnEvaluate
    \/ ReturnPop
    \/ UnsupportedTerminator

Spec == Init /\ [][Next]_vars

(***************************************************************************)
(* Properties.                                                             *)
(***************************************************************************)
\* the value the last return handed to its caller: the binding of the call
\* instruction's result in the caller's frame, or the result of the entry call
Delivered ==
    IF Len(ctl) = 0 THEN result.val
    ELSE stack[Top.frame].bindings[BlockOf(Top.f, Top.bb)[Top.idx - 1].dst]

\* C1: when a callFunction on a function with a body returns, the call
\* stack is as deep as when that call began and the stack allocator claims
\* as many bytes as it did then: the frame the call pushed has been popped
\* and exactly the bytes recorded in that frame have been released.
C1_StackDiscipline ==
    last.ev = "return" =>
        /\ Len(stack) = last.act.depth0
        /\ stackMem.top = last.act.claimed0
        /\ last.depth = last.act.depth0 + 1
        /\ last.claimed - stackMem.top = getAllocationSize(last.frame)

\* a recursive call of fact has returned into fact, with bytes allocated in
\* both frames
C1_Witness ==
    /\ last.ev = "return"
    /\ last.act.f = "fact"
    /\ getAllocationSize(last.frame) > 0
    /\ Len(ctl) >= 2
    /\ Top.f = "fact"
    /\ stackMem.top > 0

\* the head phis of block bb of function f
HeadPhis(f, bb) ==
    {i \in 1..Len(BlockOf(f, bb)) :
        \A j \in 1..i : isPHINode(BlockOf(f, bb)[j])}

\* the incoming operand of a phi for predecessor pred
IncomingFor(phiNode, pred) ==
    phiNode.incoming[CHOOSE i \in 1..Len(phiNode.incoming) :
                        phiNode.incoming[i].bb = pred].val

\* C2: after a control transfer, every phi at the head of the destination
\* block holds the value its incoming operand for the block just left had
\* in the frame before the transfer; the two phis a and b of swap that name
\* each other have exchanged their values.
C2_PhiSimultaneous ==
    (last.ev \in {"br", "switch"} /\ status = "running") =>
        /\ \A i \in HeadPhis(Top.f, last.to) :
              LET phiNode == BlockOf(Top.f, last.to)[i] IN
              Frame.bindings[phiNode.dst] =
                  evaluateOperand(last.pre, IncomingFor(phiNode, last.from))
        /\ (Top.f = "swap" /\ last.from = 3 /\ last.to = 2) =>
              /\ Frame.bindings["a"] = last.pre.bindings["b"]
              /\ Frame.bindings["b"] = last.pre.bindings["a"]

\* the loop of swap has been re-entered with different values in a and b
C2_Witness ==
    /\ last.ev = "br" /\ status = "running"
    /\ Top.f = "swap" /\ last.from = 3 /\ last.to = 2
    /\ last.pre.bindings["a"] # last.pre.bindings["b"]
    /\ Frame.bindings["a"] = last.pre.bindings["b"]
    /\ Frame.bindings["b"] = last.pre.bindings["a"]

GlobalNames == {globals[i].name : i \in 1..Len(globals)}
GlobalIndex(name) == CHOOSE i \in 1..Len(globals) : globals[i].name = name

\* C3: while evaluateGlobals evaluates initializers, every global variable
\* of the module has an address in the entity-to-address map; the
\* initializer of A, which is the address of B, is evaluated to B's address
\* whether B is declared before or after A, and never fails.
C3_AllocatedBeforeInitializers ==
    /\ (status = "globals" /\ gpc.phase = "init") => GlobalNames \subseteq DOMAIN globalEnv
    /\ last.ev = "globals_init" =>
          /\ GlobalNames \subseteq DOMAIN globalEnv
          /\ globals[last.i].name = "A" =>
                /\ status # "fatal"
                /\ globalEnv["A"] \in DOMAIN globalMem.cells
                /\ globalMem.cells[globalEnv["A"]] = GlobalAddress(globalEnv["B"])

\* A is declared before B and its initializer has been written
C3_Witness ==
    /\ last.ev = "globals_init"
    /\ globals[last.i].name = "A"
    /\ GlobalIndex("A") < GlobalIndex("B")
    /\ globalMem.cells[globalEnv["A"]] = GlobalAddress(globalEnv["B"])
    /\ globalEnv["A"] # globalEnv["B"]

\* C4: a callFunction whose argument count fits neither the fixed
\* parameter count nor, for a variadic callable, exceeds it, ends in the
\* fatal precondition failure whatever the callable: the invocation never
\* gets past its entry, is never handed to callExternalFunction and never
\* returns.
C4_BadCountIsFatal ==
    /\ \A i \in 1..Len(ctl) :
          ~ArgCountOK(ctl[i].f, ctl[i].args) => ctl[i].pc = "call"
    /\ last.ev \in {"return", "external_return"} =>
          ArgCountOK(last.act.f, last.act.args)

\* C5: the frame made for a call of a function with a body binds the i-th
\* fixed parameter to the i-th argument and nothing else, and its variadic
\* overflow is the remaining arguments in call-site order; var2 called with
\* five arguments has two bindings and three overflow entries.
C5_ArgumentBinding ==
    last.ev = "enter" =>
        LET params == Functions[Top.f].params
            n == arg_size(Top.f)
            m == Len(Top.args)
        IN  /\ Top.frame = Len(stack)
            /\ DOMAIN Frame.bindings = {params[i] : i \in 1..n}
            /\ \A i \in 1..n : Frame.bindings[params[i]] = Top.args[i]
            /\ Len(Frame.varargs) = m - n
            /\ \A j \in 1..(m - n) : Frame.varargs[j] = Top.args[n + j]
            /\ (Top.f = "var2" /\ m = 5) =>
                  /\ Cardinality(DOMAIN Frame.bindings) = 2
                  /\ Len(Frame.varargs) = 3

\* var2 has been entered with five arguments, not all of them equal
C5_Witness ==
    /\ last.ev = "enter"
    /\ Top.f = "var2" /\ Len(Top.args) = 5
    /\ Top.args[1] # Top.args[2] /\ Top.args[3] # Top.args[5]
    /\ Frame.bindings["p"] = Top.args[1] /\ Frame.bindings["q"] = Top.args[2]
    /\ Frame.varargs = <<Top.args[3], Top.args[4], Top.args[5]>>

\* C6: callExternalFunction is entered exactly by the invocations of
\* declarations, which never get a frame; it is handed the argument
\* sequence of the invocation as it is, and the value it returns is the
\* value the invocation returns.
C6_ExternalBoundary ==
    /\ \A i \in 1..Len(ctl) :
          /\ ctl[i].pc = "ext" => isDeclaration(ctl[i].f)
          /\ ctl[i].pc \in {"loop", "wait", "ret"} => ~isDeclaration(ctl[i].f)
    /\ \A k \in 1..Len(stack) : ~isDeclaration(stack[k].func)
    /\ last.ev = "external" =>
          /\ isDeclaration(Top.f)
          /\ extCall.f = Top.f
          /\ extCall.args = Top.args
    /\ last.ev = "external_return" =>
          /\ isDeclaration(last.act.f)
          /\ extCall.f = last.act.f
          /\ extCall.args = last.act.args
          /\ extCall.returned
          /\ Delivered = extCall.val

\* the variadic declaration extv, called from caller with two arguments,
\* has returned the 8-bit value 255 into caller's frame
C6_Witness ==
    /\ last.ev = "external_return"
    /\ last.act.f = "extv"
    /\ Len(ctl) = 1 /\ Top.f = "caller"
    /\ Len(extCall.args) = 2
    /\ extCall.val = IntValue(8, 255)
    /\ Frame.bindings["r2"] = IntValue(8, 255)

\* the value of a return instruction in a frame
ExpectedReturn(f, bb, frame) ==
    IF getTerminator(f, bb).val.op = "none" THEN UndefValue
    ELSE evaluateOperand(frame, getTerminator(f, bb).val)

\* C7: when the return operand has been evaluated the returning frame is
\* still the top of the call stack and its allocation is still claimed; the
\* return then pops that frame and releases all of its allocation at once,
\* and the value returned is the operand's value in that frame, or the
\* undefined marker for a return without operand.
C7_ReturnOrder ==
    /\ \A i \in 1..Len(ctl) :
          ctl[i].pc = "ret" =>
              /\ i = Len(ctl)
              /\ ctl[i].frame = Len(stack)
              /\ stack[ctl[i].frame].func = ctl[i].f
              /\ stackMem.top = ctl[i].claimed0 + getAllocationSize(stack[ctl[i].frame])
              /\ ctl[i].retVal = ExpectedReturn(ctl[i].f, ctl[i].bb, stack[ctl[i].frame])
    /\ last.ev = "return" =>
          /\ Len(stack) = last.depth - 1
          /\ stackMem.top = last.claimed - getAllocationSize(last.frame)
          /\ Delivered = ExpectedReturn(last.act.f, last.act.bb, last.frame)

\* var2 has returned its second parameter and released its four bytes
C7_Witness ==
    /\ last.ev = "return"
    /\ last.act.f = "var2"
    /\ getAllocationSize(last.frame) = 4
    /\ last.claimed - stackMem.top = 4
    /\ Delivered = last.frame.bindings["q"]
    /\ Len(ctl) = 1

\* C8: a branch goes to successor 0 when it is unconditional or its
\* condition is not zero, whatever the condition's width, and to successor
\* 1 when the condition is zero; the loop continues in that block.
C8_BranchTarget ==
    last.ev = "br" =>
        LET brInst == getTerminator(last.pre.func, last.from) IN
        /\ status = "running" => Top.bb = last.to
        /\ IF brInst.cond.op = "none" THEN last.to = brInst.succ[1]
           ELSE LET condVal == evaluateOperand(last.pre, brInst.cond) IN
                /\ condVal.v = 0 => last.to = brInst.succ[2]
                /\ condVal.v # 0 => last.to = brInst.succ[1]

\* the 8-bit condition 128 of wbr's second block has been taken as true
C8_Witness ==
    /\ last.ev = "br"
    /\ last.pre.func = "wbr" /\ last.from = 2 /\ last.to = 4
    /\ Top.bb = 4

\* C9: a switch goes to the successor of the first case in declaration
\* order whose constant equals the selector, and to the default block when
\* no case does, in particular when there is no case.
C9_SwitchTarget ==
    last.ev = "switch" =>
        LET switchInst == getTerminator(last.pre.func, last.from)
            selector == evaluateOperand(last.pre, switchInst.cond)
            matches == {i \in 1..Len(switchInst.cases) :
                           switchInst.cases[i].val = selector}
            first == CHOOSE i \in matches : \A j \in matches : i <= j
        IN  /\ status = "running" => Top.bb = last.to
            /\ matches = {} => last.to = switchInst.default
            /\ matches # {} => last.to = switchInst.cases[first].succ

\* the selector 2 of sel, listed twice, has gone to the first case's block
C9_Witness ==
    /\ last.ev = "switch"
    /\ last.pre.func = "sel" /\ last.from = 1
    /\ last.pre.bindings["s"] = IntValue(8, 2)
    /\ last.to = 3 /\ Top.bb = 3

\* the instructions of a block the loop evaluates before its terminator
NonTerminals(f, bb) ==
    [i \in 1..(Len(BlockOf(f, bb)) - SkipPhis(BlockOf(f, bb), 1)) |->
        SkipPhis(BlockOf(f, bb), 1) + i - 1]

\* C10: at a terminator other than a branch, a return or a switch the
\* engine stops for good once the block's other instructions have been
\* evaluated: no block is entered, no frame popped, no memory released and
\* nothing returned, and no step follows.
C10_UnsupportedIsFatal ==
    [][/\ status # "fatal"
       /\ (AtTerminator /\ CurInst.k \notin {"br", "ret", "switch"}) =>
             /\ status' = "fatal"
             /\ Top.visited = NonTerminals(Top.f, Top.bb)
             /\ UNCHANGED <<ctl, stack, stackMem, result, exitCode>>]_vars

\* bad, called from caller, has stopped at its invoke terminator
C10_Witness ==
    /\ last.ev = "unsupported" /\ last.opcode = "invoke"
    /\ status = "fatal"
    /\ Len(ctl) = 2 /\ ctl[1].pc = "wait" /\ Top.f = "bad"
    /\ Top.visited = <<1, 2>>
    /\ Len(stack) = 2
    /\ ~result.has

FunctionIndex(f) == CHOOSE i \in 1..Len(FunctionOrder) : FunctionOrder[i] = f

\* what one evaluateGlobals on a newly constructed interpreter leaves: the
\* k-th allocation of the cleared address space, the address of every global
\* variable and function, the function of every function address, and the
\* cells holding the initializers' values
FreshAddress(k) == getTypeAllocSize(PointerType) * (k - 1)
FreshEnv ==
    [e \in GlobalNames \cup FunctionNames |->
        IF e \in GlobalNames THEN FreshAddress(GlobalIndex(e))
        ELSE FreshAddress(Len(globals) + FunctionIndex(e))]
FreshFunPtrMap ==
    [a \in {FreshEnv[f] : f \in FunctionNames} |->
        CHOOSE f \in FunctionNames : FreshEnv[f] = a]
FreshCells ==
    [a \in {FreshEnv[globals[i].name] : i \in {j \in 1..Len(globals) : globals[j].init.has}} |->
        LET gv == globals[CHOOSE i \in 1..Len(globals) : FreshEnv[globals[i].name] = a]
        IN  IF gv.init.kind = "int" THEN gv.init.val
            ELSE GlobalAddress(FreshEnv[gv.init.of])]
FreshMem ==
    [top |-> FreshAddress(Len(globals) + Len(FunctionOrder) + 1), cells |-> FreshCells]

\* the addresses the global allocator has issued since its last clear()
IssuedSinceClear ==
    {FreshAddress(k) : k \in 1..(Len(globals) + Len(FunctionOrder))}
        \cap 0..(globalMem.top - 1)

\* C11: when evaluateGlobals has run to its end, for the first time or
\* again, the global address space, the entity-to-address map and the
\* address-to-function map are those of a single call on a new interpreter,
\* every address the two maps record was issued since the last clear(), and
\* global memory holds the initializers' values and nothing else: no value
\* written before the call is readable.
C11_ReevaluationDiscards ==
    last.ev = "globals_done" =>
        /\ globalMem = FreshMem
        /\ globalEnv = FreshEnv
        /\ funPtrMap = FreshFunPtrMap
        /\ \A e \in DOMAIN globalEnv : globalEnv[e] \in IssuedSinceClear
        /\ \A a \in DOMAIN funPtrMap : a \in IssuedSinceClear
        /\ \A a \in DOMAIN priorMem.cells :
              a \in DOMAIN globalMem.cells => globalMem.cells[a] = FreshCells[a]

\* a second evaluateGlobals has ended after setg had stored 9 into V and 5
\* into B: V has no value and B has its initializer's value again
C11_Witness ==
    /\ last.ev = "globals_done" /\ status = "idle"
    /\ priorMem.top = globalMem.top
    /\ {"V", "B"} \subseteq DOMAIN globalEnv
    /\ {globalEnv["V"], globalEnv["B"]} \subseteq DOMAIN priorMem.cells
    /\ priorMem.cells[globalEnv["V"]] = IntValue(16, 9)
    /\ priorMem.cells[globalEnv["B"]] = IntValue(16, 5)
    /\ globalEnv["V"] \notin DOMAIN globalMem.cells
    /\ globalMem.cells[globalEnv["B"]] = IntValue(16, 7)

\* C12: once every function has an address, the address-to-function map is
\* the inverse of the entity-to-address map on functions: the address of a
\* function maps back to that function, the map holds no other address, two
\* functions never share an address, and no function has the address of a
\* global variable.
C12_FunctionAddresses ==
    FunctionNames \subseteq DOMAIN globalEnv =>
        /\ \A f \in FunctionNames :
              /\ globalEnv[f] \in DOMAIN funPtrMap
              /\ funPtrMap[globalEnv[f]] = f
        /\ DOMAIN funPtrMap = {globalEnv[f] : f \in FunctionNames}
        /\ \A f, g \in FunctionNames : f # g => globalEnv[f] # globalEnv[g]
        /\ \A f \in FunctionNames, gv \in GlobalNames :
              gv \in DOMAIN globalEnv => globalEnv[f] # globalEnv[gv]

\* evaluateGlobals has ended a second time: every function has an address of
\* its own that maps back to it
C12_Witness ==
    /\ last.ev = "globals_done" /\ priorMem.top > 0
    /\ Cardinality(DOMAIN funPtrMap) = Len(FunctionOrder)
    /\ funPtrMap[globalEnv["fact"]] = "fact"
    /\ funPtrMap[globalEnv["extv"]] = "extv"
    /\ globalEnv["swap"] > globalEnv["V"]

\* the invocations on the current execution path that hold a frame
FramedUpTo(n) == {i \in 1..n : ctl[i].frame # 0}

\* C13 as stated: the depth of the call stack is the number of callFunction
\* invocations that have started (those that have executed more than their
\* entry) and not yet returned.
C13_DepthEqualsInvocations ==
    Len(stack) =
        Cardinality({i \in 1..Len(ctl) : ctl[i].pc # "call" \/ ctl[i].frame # 0})

\* the depth of the call stack is the number of unreturned invocations of
\* functions with a body that have created their frame, each of them holds
\* the frame of its own function at its own depth, and an invocation of a
\* declaration holds none
DepthIsFramedInvocations ==
    /\ Len(stack) = Cardinality(FramedUpTo(Len(ctl)))
    /\ \A i \in 1..Len(ctl) :
          /\ ctl[i].frame # 0 <=>
                /\ ~isDeclaration(ctl[i].f)
                /\ \/ ctl[i].pc \in {"loop", "wait", "ret"}
                   \/ i = Len(ctl) /\ status = "fatal" /\ last.ev = "bad_args"
          /\ ctl[i].frame # 0 =>
                /\ ctl[i].frame = Cardinality(FramedUpTo(i))
                /\ stack[ctl[i].frame].func = ctl[i].f

\* a frame is removed only by the return case of the execution loop, one at
\* a time, and added only by callFunction on a function with a body
FramesChangeOnlyByCallAndReturn ==
    /\ Len(stack') < Len(stack) =>
          /\ Len(stack') = Len(stack) - 1
          /\ Top.pc = "ret" /\ getTerminator(Top.f, Top.bb).k = "ret"
          /\ last'.ev = "return"
    /\ Len(stack') > Len(stack) =>
          /\ Len(stack') = Len(stack) + 1
          /\ Top.pc = "call" /\ ~isDeclaration(Top.f)

\* C13: in every reachable state the depth of the call stack equals the
\* number of unreturned callFunction invocations of functions with a body
\* that have created their frame (an invocation of a declaration, handed to
\* callExternalFunction, has no frame), and a frame is removed only by the
\* return case of the execution loop.
C13_StackDepth ==
    /\ []DepthIsFramedInvocations
    /\ [][FramesChangeOnlyByCallAndReturn]_vars

\* caller is inside callExternalFunction(extv): two invocations have not
\* returned and the call stack holds one frame
C13_Witness ==
    /\ Running /\ Len(ctl) = 2
    /\ ctl[1].f = "caller" /\ ctl[1].pc = "wait"
    /\ Top.f = "extv" /\ Top.pc = "ext"
    /\ Len(stack) = 1 /\ stack[1].func = "caller"

\* an integer of at most 32 bits read as a two's complement number of its
\* own width
SignedValue(d) ==
    IF d.w <= 16
    THEN IF d.v >= Pow2(d.w - 1) THEN d.v - Pow2(d.w) ELSE d.v
    ELSE LET h == Limb(d, 1)
             hb == d.w - 16
         IN  (IF h >= Pow2(hb - 1) THEN h - Pow2(hb) ELSE h) * 65536 + d.v

\* the low 32 bits of an integer wider than 32 bits, read as a two's
\* complement number
Low32Signed(d) ==
    (IF Limb(d, 1) >= 32768 THEN Limb(d, 1) - 65536 ELSE Limb(d, 1)) * 65536 + d.v

\* an exit code written as the four limbs of the int64_t of the same value
Int64Of(code) ==
    <<code % 65536, (code \div 65536) % 65536,
      IF code < 0 THEN 65535 ELSE 0, IF code < 0 THEN 65535 ELSE 0>>

\* C14 as stated: runMain returns 0 for the undefined marker, and otherwise
\* an exit code equal to the returned integer read as a signed number of its
\* own width, for every width up to 64 bits.
C14_ExitCodeIsSignedValue ==
    (entry = "main" /\ exitCode.has) =>
        IF isUndefValue(result.val) THEN exitCode.code = 0
        ELSE Int64Of(exitCode.code) = getSExtValue(result.val)

\* C14: runMain returns 0 for the undefined marker; for an integer of at
\* most 32 bits it returns the integer read as a signed number of its own
\* width (an all-ones value gives -1); for a wider integer it returns the
\* low 32 bits of the value, read as a signed number.
C14_ExitCode ==
    (entry = "main" /\ exitCode.has) =>
        /\ result.has
        /\ IF isUndefValue(result.val) THEN exitCode.code = 0
           ELSE IF result.val.w <= 32
                THEN /\ exitCode.code = SignedValue(result.val)
                     /\ Int64Of(exitCode.code) = getSExtValue(result.val)
                ELSE exitCode.code = Low32Signed(result.val)

\* runMain(main0) has returned -1 for the 8-bit value 255 of the external
\* function
C14_Witness ==
    /\ entry = "main" /\ exitCode.has
    /\ last.ev = "return" /\ last.act.f = "main0"
    /\ result.val = IntValue(8, 255)
    /\ exitCode.code = -1

\* C15: after the step of evaluateGlobals that allocates a global variable,
\* a variable whose declared type is a vector type has stopped the engine
\* and has no storage, and any other variable has been allocated storage of
\* the allocation size of its declared type.
C15_VectorGlobalIsFatal ==
    last.ev = "globals_alloc" =>
        LET gv == globals[last.i] IN
        IF isVectorTy(gv.valueType)
        THEN status = "fatal" /\ gv.name \notin DOMAIN globalEnv
        ELSE /\ status # "fatal"
             /\ gv.name \in DOMAIN globalEnv
             /\ last.size = getTypeAllocSize(gv.valueType)

\* C16: whenever runFunction is about to evaluate an instruction or an
\* operand, has committed phi bindings, or is about to call popStack, the
\* frame it was handed is the top frame of the call stack and belongs to its
\* function; the frame a return pops and whose allocation it releases is
\* the frame of the function that executes the return, at any nesting.
C16_FrameIsTop ==
    /\ (Running /\ Top.pc \in {"loop", "ret"}) =>
          /\ Top.frame = Len(stack)
          /\ Frame = getCurrentFrame(stack)
          /\ Frame.func = Top.f
    /\ last.ev = "return" =>
          /\ last.act.frame = last.depth
          /\ last.frame.func = last.act.f
          /\ Len(stack) = last.depth - 1
          /\ stackMem.top = last.claimed - getAllocationSize(last.frame)

\* the innermost of three nested invocations of fact under caller has
\* returned: its own frame, the fourth, was popped and the frames of the
\* other invocations of fact are still there
C16_Witness ==
    /\ last.ev = "return" /\ last.act.f = "fact"
    /\ last.depth = 4 /\ last.act.frame = 4
    /\ Len(stack) = 3 /\ stack[2].func = "fact" /\ stack[3].func = "fact"
    /\ Top.pc = "loop" /\ Top.frame = 3

\* C17: while a callFunction invocation is active, every frame that was on
\* the call stack when it began is as it was then; when a nested invocation
\* has returned, the call stack is the one of the moment of the call, but
\* for the binding of the call instruction's result to the returned value in
\* the caller's frame: the caller's other bindings, its variadic overflow
\* and its claimed bytes are unchanged, also when caller and callee are the
\* same function.
C17_CallerFrameUnchanged ==
    /\ \A i \in 1..Len(ctl) : SubSeq(stack, 1, ctl[i].depth0) = ctl[i].stack0
    /\ (last.ev \in {"return", "external_return"} /\ Len(ctl) > 0) =>
          LET callInst == BlockOf(Top.f, Top.bb)[Top.idx - 1]
              retVal == IF last.ev = "return" THEN last.act.retVal ELSE extCall.val
              before == last.act.stack0[Top.frame]
          IN  /\ stack = [last.act.stack0 EXCEPT ![Top.frame] =
                             insertBinding(before, callInst.dst, retVal)]
              /\ stack[Top.frame].varargs = before.varargs
              /\ getAllocationSize(stack[Top.frame]) = getAllocationSize(before)
              /\ \A n \in DOMAIN before.bindings :
                    n # callInst.dst => stack[Top.frame].bindings[n] = before.bindings[n]

\* fact(1) called from fact(2) has returned after it bound n, m and tmp in
\* its own frame: the frame of fact(2) still binds n to 2 and m to 1, and
\* claims the 2 bytes of its own tmp
C17_Witness ==
    /\ last.ev = "return" /\ last.act.f = "fact" /\ Len(ctl) > 0
    /\ Top.f = "fact" /\ Top.pc = "loop"
    /\ last.frame.bindings["n"] = IntValue(8, 1)
    /\ "m" \in DOMAIN last.frame.bindings /\ "tmp" \in DOMAIN last.frame.bindings
    /\ stack[Top.frame].bindings["n"] = IntValue(8, 2)
    /\ stack[Top.frame].bindings["m"] = IntValue(8, 1)
    /\ stack[Top.frame].bindings["tmp"] # last.frame.bindings["tmp"]
    /\ getAllocationSize(stack[Top.frame]) = 2

\* C18: while evaluateGlobals evaluates initializers, every global variable
\* and every function of the module has an address in the entity-to-address
\* map, and the initializer of T, which is the address of the function fact,
\* is evaluated without failure to the address recorded for fact.
C18_FunctionsAddressedBeforeInitializers ==
    /\ (status = "globals" /\ gpc.phase = "init") =>
          (GlobalNames \cup FunctionNames) \subseteq DOMAIN globalEnv
    /\ last.ev = "globals_init" =>
          /\ status # "fatal"
          /\ globals[last.i].name = "T" =>
                /\ "fact" \in DOMAIN globalEnv
                /\ globalEnv["T"] \in DOMAIN globalMem.cells
                /\ globalMem.cells[globalEnv["T"]] = GlobalAddress(globalEnv["fact"])

\* the positions behind the head phis of a block, in program order, up to
\* position n
Evaluated(f, bb, n) ==
    [k \in 1..(n - Cardinality(HeadPhis(f, bb))) |-> Cardinality(HeadPhis(f, bb)) + k]

\* the names the phi nodes of a function bind
PhiNames(f) ==
    UNION {{BlockOf(f, bb)[j].dst : j \in HeadPhis(f, bb)} :
              bb \in 1..Len(Functions[f].blocks)}

\* the binding of a name in a frame, if any
BindingOf(frame, n) == IF n \in DOMAIN frame.bindings THEN <<frame.bindings[n]>> ELSE <<>>

\* in a visit of a block no phi is evaluated by the loop, the instructions
\* evaluated so far are those behind the head phis up to the current one, in
\* program order and once each, and a terminator is acted upon only after
\* all of them; a head phi is bound exactly if its block was entered by a
\* control transfer
VisitInProgramOrder ==
    /\ \A i \in 1..Len(ctl) :
          LET act == ctl[i]
              blk == BlockOf(act.f, act.bb)
          IN  act.pc \in {"loop", "wait", "ret"} =>
                /\ act.idx \in 1..Len(blk)
                /\ ~isPHINode(blk[act.idx])
                /\ act.visited = Evaluated(act.f, act.bb, act.idx - 1)
                /\ act.pc = "wait" => blk[act.idx].k = "call"
                /\ act.pc = "ret" => act.idx = Len(blk)
                /\ isTerminator(blk[act.idx]) => act.idx = Len(blk)
                /\ \A bb \in 1..Len(Functions[act.f].blocks) :
                      \A j \in HeadPhis(act.f, bb) :
                          BlockOf(act.f, bb)[j].dst \in DOMAIN stack[act.frame].bindings
                             <=> \E e \in 1..Len(act.entered) : act.entered[e] = bb
    /\ last.ev \in {"br", "switch", "unsupported"} =>
          last.visited = Evaluated(Top.f, IF last.ev = "unsupported" THEN Top.bb
                                          ELSE last.from,
                                   Len(BlockOf(Top.f, IF last.ev = "unsupported"
                                                      THEN Top.bb ELSE last.from)) - 1)

\* the binding of a phi changes only in the control transfer that enters the
\* phi's block, in the frame of the function that makes the transfer
PhisBoundOnlyByTransfer ==
    \A i \in 1..Len(stack) :
        i <= Len(stack') =>
            \A n \in PhiNames(stack[i].func) :
                BindingOf(stack'[i], n) # BindingOf(stack[i], n) =>
                    /\ last'.ev \in {"br", "switch"}
                    /\ i = Top.frame
                    /\ \E j \in HeadPhis(Top.f, last'.to) :
                          BlockOf(Top.f, last'.to)[j].dst = n

\* C19: in each visit of a block the loop skips the head phis, which are
\* bound only by the control transfer that entered the block and never for
\* a block that was not entered, evaluates every other non-terminal
\* instruction once, in program order, and acts on the terminator only
\* after the last of them.
C19_BlockVisit ==
    /\ []VisitInProgramOrder
    /\ [][PhisBoundOnlyByTransfer]_vars

\* early returned from block 2 without entering block 4: its phi l is not
\* bound
C19_Witness ==
    /\ last.ev = "return" /\ last.act.f = "early"
    /\ last.act.entered = <<2>>
    /\ last.act.visited = <<>>
    /\ "l" \notin DOMAIN last.frame.bindings
    /\ last.act.retVal = IntValue(8, 2)

\* the entry function of the running runMain has a body and fixed parameters
MainWithParameters ==
    /\ entry = "main" /\ Len(ctl) > 0
    /\ ~isDeclaration(ctl[1].f) /\ arg_size(ctl[1].f) >= 1

\* under runMain the entry function is called without arguments; an entry
\* function with a body and fixed parameters evaluates no instruction and
\* returns nothing; the exit code for an entry function without parameters
\* is fixed by the function (wbr, setg) or by what the external function
\* returned (main0), whatever mainArgs holds
MainArgsIgnored ==
    entry = "main" =>
        /\ Len(ctl) > 0 => ctl[1].args = <<>>
        /\ MainWithParameters =>
              /\ Len(ctl) = 1 /\ ctl[1].pc = "call" /\ ctl[1].visited = <<>>
              /\ last.ev \in {"runMain", "bad_args"}
              /\ ~result.has /\ ~exitCode.has
              /\ stackMem = EmptyMem
        /\ exitCode.has =>
              /\ arg_size(last.act.f) = 0 \/ isDeclaration(last.act.f)
              /\ last.act.args = <<>>
              /\ last.act.f = "wbr" => exitCode.code = -1
              /\ last.act.f = "setg" => exitCode.code = 0
              /\ last.act.f = "main0" => result.val = extCall.val

\* the only step of an entry function with a body and fixed parameters is
\* the failure of the argument count assertion
MainWithParametersFails ==
    (MainWithParameters /\ status = "running") =>
        /\ status' = "fatal"
        /\ last'.ev = "bad_args"
        /\ UNCHANGED <<stackMem, result, exitCode, mainArgs>>

\* C20: runMain calls callFunction with an empty argument sequence whatever
\* mainArgs holds; for an entry function with a body and at least one fixed
\* parameter the call ends in the failure of the argument count assertion
\* before any instruction is evaluated; for an entry function without fixed
\* parameters the result does not depend on mainArgs.
C20_MainArgsIgnored ==
    /\ []MainArgsIgnored
    /\ [][MainWithParametersFails]_vars

\* runMain(fact, {"prog", "7"}) has stopped at the argument count assertion
C20_Witness ==
    /\ entry = "main" /\ mainArgs = <<"prog", "7">>
    /\ status = "fatal" /\ last.ev = "bad_args"
    /\ Len(ctl) = 1 /\ Top.f = "fact" /\ Top.args = <<>>
    /\ Top.visited = <<>> /\ ~exitCode.has

====
